---- MODULE Spec2Model ----
(***************************************************************************)
(* A model of email_parser.py: the extraction batch (main, process_email,  *)
(* validate_json_output), the comparison run (compare_results,             *)
(* evaluate_with_llm) with its accuracy CSV and evaluation report, and the *)
(* pure function calculate_accuracy.                                       *)
(*                                                                         *)
(* Texts (model responses, file contents, file names) are TLA+ strings,    *)
(* read character by character.  JSON values are tagged tuples:            *)
(*   <<"dict", <<k1, v1>>, ...>>  is written  <<"dict", << <<k, v>>, .. >>>>*)
(*   <<"list", <<v1, ...>>>>   <<"str", s>>   <<"int", n>>                 *)
(*   <<"bool", b>>             <<"null">>                                  *)
(* A dict keeps its pairs in insertion order and has no key twice.         *)
(***************************************************************************)
EXTENDS Integers, Sequences, FiniteSets, TLC

VARIABLES
    pc,                  \* position of the running program
    args,                \* inputs of the pure function under study
    ret,                 \* its result
    credential,          \* GOOGLE_API_KEY is set
    html_dir,            \* the directory HTML
    expected_dir,        \* the directory Expected Output
    output_dir,          \* the directory output
    csv,                 \* the file file_accuracy.csv
    report,              \* the file evaluation_report.json
    queue,               \* the file names the running loop has still to take
    results,             \* main's list results
    evaluation_results,  \* compare_results' list evaluation_results
    response,            \* what the last call of the model gave
    console,             \* the lines printed that name a step of the batch, as
                         \* events: start, Processing, Evaluating, Error processing
                         \* (once per failure), the directory error, the statistics
    run                  \* the number of the run, which stands for its clock

\* the variables of the batch, and those of a pure function under study
pvars == <<credential, html_dir, expected_dir, output_dir, csv, report, queue, results,
           evaluation_results, response, console, run>>
fvars == <<pc, args, ret>>
vars == <<pc, args, ret, credential, html_dir, expected_dir, output_dir, csv,
          report, queue, results, evaluation_results, response, console, run>>

-----------------------------------------------------------------------------
(* Python str operations *)

\* SANY admits no backquote inside a string: the tilde stands for it in
\* every text of the model, and no text uses the tilde for anything else.
BQ == "~"
Fence == BQ \o BQ \o BQ
JsonFence == Fence \o "json"

\* s[i-1] in Python terms; "" outside the text
Ch(s, i) == IF i >= 1 /\ i <= Len(s) THEN SubSeq(s, i, i) ELSE ""

\* s[i-1:j], the bounds clamped to the text as Python's slices are
Slice(s, i, j) ==
    LET a == IF i < 1 THEN 1 ELSE i
        b == IF j > Len(s) THEN Len(s) ELSE j
    IN  IF a > b THEN "" ELSE SubSeq(s, a, b)

StartsWith(s, p) == Len(s) >= Len(p) /\ Slice(s, 1, Len(p)) = p

\* str.find from position i: the first index >= i where sep occurs, 0 if none
Find(s, sep, i) ==
    LET last == Len(s) - Len(sep) + 1
        At(j) == SubSeq(s, j, j + Len(sep) - 1) = sep
    IN  IF \E j \in i..last : At(j)
        THEN CHOOSE j \in i..last : At(j) /\ \A k \in i..(j - 1) : ~At(k)
        ELSE 0

\* sub in s
Contains(s, sub) == Find(s, sub, 1) # 0

\* s.split(sep)[0]
SplitPart0(s, sep) ==
    LET i == Find(s, sep, 1)
    IN  IF i = 0 THEN s ELSE Slice(s, 1, i - 1)

\* s.split(sep)[1], for s holding sep at least once
SplitPart1(s, sep) ==
    LET i == Find(s, sep, 1)
        a == i + Len(sep)
        j == Find(s, sep, a)
    IN  Slice(s, a, IF j = 0 THEN Len(s) ELSE j - 1)

Whitespace == {" ", "\n", "\t", "\r"}

RECURSIVE LStripChars(_, _)
LStripChars(s, cs) ==
    IF s # "" /\ Ch(s, 1) \in cs THEN LStripChars(Slice(s, 2, Len(s)), cs) ELSE s

RECURSIVE RStripChars(_, _)
RStripChars(s, cs) ==
    IF s # "" /\ Ch(s, Len(s)) \in cs THEN RStripChars(Slice(s, 1, Len(s) - 1), cs) ELSE s

\* s.strip(chars)
StripChars(s, cs) == RStripChars(LStripChars(s, cs), cs)

\* s.strip()
Strip(s) == StripChars(s, Whitespace)

\* sep.join(parts), parts a sequence of texts
RECURSIVE Join(_, _)
Join(sep, parts) ==
    IF Len(parts) = 0 THEN ""
    ELSE IF Len(parts) = 1 THEN parts[1]
    ELSE parts[1] \o sep \o Join(sep, Tail(parts))

\* s.endswith(p)
EndsWith(s, p) == Len(s) >= Len(p) /\ Slice(s, Len(s) - Len(p) + 1, Len(s)) = p

\* s.replace(old, new), for old not empty: every occurrence, left to right
RECURSIVE Replace(_, _, _)
Replace(s, old, new) ==
    LET i == Find(s, old, 1)
    IN  IF i = 0 THEN s
        ELSE Slice(s, 1, i - 1) \o new \o Replace(Slice(s, i + Len(old), Len(s)), old, new)

\* the characters of file names, by rising code point
CodeOrder == " .0123456789_abcdefghijklmnopqrstuvwxyz"
Ord(c) == Find(CodeOrder, c, 1)

\* a < b on texts
RECURSIVE StrLess(_, _)
StrLess(a, b) ==
    IF b = "" THEN FALSE
    ELSE IF a = "" THEN TRUE
    ELSE IF Ch(a, 1) = Ch(b, 1) THEN StrLess(Slice(a, 2, Len(a)), Slice(b, 2, Len(b)))
    ELSE Ord(Ch(a, 1)) < Ord(Ch(b, 1))

\* sorted(S), S a set of texts
RECURSIVE Sorted(_)
Sorted(S) ==
    IF S = {} THEN <<>>
    ELSE LET m == CHOOSE x \in S : \A y \in S \ {x} : StrLess(x, y)
         IN  <<m>> \o Sorted(S \ {m})

\* the characters of a text, as a sequence of one-character texts
CharsOf(s) == [i \in 1..Len(s) |-> Ch(s, i)]

Digit == {"0", "1", "2", "3", "4", "5", "6", "7", "8", "9"}

DigitVal(c) ==
    CASE c = "0" -> 0 [] c = "1" -> 1 [] c = "2" -> 2 [] c = "3" -> 3
      [] c = "4" -> 4 [] c = "5" -> 5 [] c = "6" -> 6 [] c = "7" -> 7
      [] c = "8" -> 8 [] c = "9" -> 9

DigitChar(d) == Ch("0123456789", d + 1)

\* str(n) for n >= 0
RECURSIVE IntStr(_)
IntStr(n) == IF n < 10 THEN DigitChar(n) ELSE IntStr(n \div 10) \o DigitChar(n % 10)

-----------------------------------------------------------------------------
(* JSON values *)

JStr(s)  == <<"str", s>>
JInt(n)  == <<"int", n>>
JBool(b) == <<"bool", b>>
JNull    == <<"null">>
JList(q) == <<"list", q>>
JDict(q) == <<"dict", q>>

Tag(v) == v[1]
IsDict(v) == Tag(v) = "dict"
IsList(v) == Tag(v) = "list"
IsStr(v)  == Tag(v) = "str"
IsInt(v)  == Tag(v) = "int"
IsBool(v) == Tag(v) = "bool"
IsNull(v) == Tag(v) = "null"

\* the keys of a dict, in insertion order
Keys(d) == [i \in 1..Len(d[2]) |-> d[2][i][1]]
KeySet(d) == {d[2][i][1] : i \in 1..Len(d[2])}
HasKey(d, k) == k \in KeySet(d)
\* d[k], for k a key of d
Lookup(d, k) == d[2][CHOOSE i \in 1..Len(d[2]) : d[2][i][1] = k][2]

\* d[k] = v on a dict: a present key keeps its place
DictSet(d, k, v) ==
    IF HasKey(d, k)
    THEN JDict([i \in 1..Len(d[2]) |-> IF d[2][i][1] = k THEN <<k, v>> ELSE d[2][i]])
    ELSE JDict(Append(d[2], <<k, v>>))

\* Python's == on JSON values: dicts compare as mappings, lists by position,
\* and bool is an int (True == 1, False == 0)
NumVal(v) == IF IsBool(v) THEN (IF v[2] THEN 1 ELSE 0) ELSE v[2]
IsNum(v) == IsInt(v) \/ IsBool(v)

RECURSIVE PyEq(_, _)
PyEq(a, b) ==
    IF IsNum(a) /\ IsNum(b) THEN NumVal(a) = NumVal(b)
    ELSE IF Tag(a) # Tag(b) THEN FALSE
    ELSE IF IsStr(a) THEN a[2] = b[2]
    ELSE IF IsNull(a) THEN TRUE
    ELSE IF IsList(a) THEN
        /\ Len(a[2]) = Len(b[2])
        /\ \A i \in 1..Len(a[2]) : PyEq(a[2][i], b[2][i])
    ELSE
        /\ KeySet(a) = KeySet(b)
        /\ \A k \in KeySet(a) : PyEq(Lookup(a, k), Lookup(b, k))

\* bool(v)
Truthy(v) ==
    IF IsDict(v) \/ IsList(v) THEN Len(v[2]) > 0
    ELSE IF IsStr(v) THEN v[2] # ""
    ELSE IF IsInt(v) THEN v[2] # 0
    ELSE IF IsBool(v) THEN v[2]
    ELSE FALSE

-----------------------------------------------------------------------------
(* json.loads, on texts over the characters the model uses: objects, arrays,*)
(* strings without escapes, non-negative integers, true, false, null.      *)

ParseFail == [ok |-> FALSE, v |-> JNull, pos |-> 0]
ParseOk(v, p) == [ok |-> TRUE, v |-> v, pos |-> p]

RECURSIVE SkipWS(_, _)
SkipWS(s, i) == IF Ch(s, i) \in Whitespace THEN SkipWS(s, i + 1) ELSE i

RECURSIVE DigitsEnd(_, _)
DigitsEnd(s, i) == IF Ch(s, i) \in Digit THEN DigitsEnd(s, i + 1) ELSE i

RECURSIVE DigitsVal(_, _)
DigitsVal(s, acc) ==
    IF s = "" THEN acc ELSE DigitsVal(Slice(s, 2, Len(s)), acc * 10 + DigitVal(Ch(s, 1)))

\* a string starting at the quote s[i]: no control character, no escape
ParseString(s, i) ==
    LET j == Find(s, "\"", i + 1)
        body == Slice(s, i + 1, j - 1)
    IN  IF j = 0 THEN ParseFail
        ELSE IF \E c \in {"\n", "\t", "\r", "\\"} : Contains(body, c) THEN ParseFail
        ELSE ParseOk(JStr(body), j + 1)

ParseNumber(s, i) ==
    IF Ch(s, i) = "0" THEN ParseOk(JInt(0), i + 1)
    ELSE LET e == DigitsEnd(s, i)
         IN  ParseOk(JInt(DigitsVal(Slice(s, i, e - 1), 0)), e)

\* The decoder: each operator takes what the ones before it have read.
RECURSIVE ParseValue(_, _)
RECURSIVE ValueAt(_, _)
RECURSIVE ObjectFrom(_, _)
RECURSIVE ArrayFrom(_, _)
RECURSIVE ParseMembers(_, _, _)
RECURSIVE MemberColon(_, _, _)
RECURSIVE MemberValue(_, _, _, _)
RECURSIVE MemberEnd(_, _, _, _)
RECURSIVE MemberNext(_, _, _)
RECURSIVE ParseElements(_, _, _)
RECURSIVE ElementEnd(_, _, _)
RECURSIVE ElementNext(_, _, _)

\* the value that starts at or after s[i0], leading whitespace skipped
ParseValue(s, i0) == ValueAt(s, SkipWS(s, i0))

ValueAt(s, i) ==
    IF Ch(s, i) = "\"" THEN ParseString(s, i)
    ELSE IF Ch(s, i) = "{" THEN ObjectFrom(s, SkipWS(s, i + 1))
    ELSE IF Ch(s, i) = "[" THEN ArrayFrom(s, SkipWS(s, i + 1))
    ELSE IF Ch(s, i) \in Digit THEN ParseNumber(s, i)
    ELSE IF Slice(s, i, i + 3) = "true" THEN ParseOk(JBool(TRUE), i + 4)
    ELSE IF Slice(s, i, i + 4) = "false" THEN ParseOk(JBool(FALSE), i + 5)
    ELSE IF Slice(s, i, i + 3) = "null" THEN ParseOk(JNull, i + 4)
    ELSE ParseFail

\* after the opening brace
ObjectFrom(s, j) ==
    IF Ch(s, j) = "}" THEN ParseOk(JDict(<<>>), j + 1)
    ELSE ParseMembers(s, j, JDict(<<>>))

\* after the opening bracket
ArrayFrom(s, j) ==
    IF Ch(s, j) = "]" THEN ParseOk(JList(<<>>), j + 1)
    ELSE ParseElements(s, j, <<>>)

\* the "key": value pairs from s[i] to the closing brace, added to the
\* dict acc: the key k, the colon at s[c], the value v, then s[e]
ParseMembers(s, i, acc) ==
    IF Ch(s, i) # "\"" THEN ParseFail
    ELSE MemberColon(s, acc, ParseString(s, i))

MemberColon(s, acc, k) ==
    IF ~k.ok THEN ParseFail
    ELSE MemberValue(s, acc, k.v[2], SkipWS(s, k.pos))

MemberValue(s, acc, key, c) ==
    IF Ch(s, c) # ":" THEN ParseFail
    ELSE MemberEnd(s, acc, key, ParseValue(s, c + 1))

MemberEnd(s, acc, key, v) ==
    IF ~v.ok THEN ParseFail
    ELSE MemberNext(s, DictSet(acc, key, v.v), SkipWS(s, v.pos))

MemberNext(s, acc, e) ==
    IF Ch(s, e) = "}" THEN ParseOk(acc, e + 1)
    ELSE IF Ch(s, e) = "," THEN ParseMembers(s, SkipWS(s, e + 1), acc)
    ELSE ParseFail

\* the values from s[i] to the closing bracket, appended to the sequence acc
ParseElements(s, i, acc) == ElementEnd(s, acc, ParseValue(s, i))

ElementEnd(s, acc, v) ==
    IF ~v.ok THEN ParseFail
    ELSE ElementNext(s, Append(acc, v.v), SkipWS(s, v.pos))

ElementNext(s, acc, e) ==
    IF Ch(s, e) = "]" THEN ParseOk(JList(acc), e + 1)
    ELSE IF Ch(s, e) = "," THEN ParseElements(s, e + 1, acc)
    ELSE ParseFail

\* r, when nothing but whitespace follows the value
WholeText(s, r) == IF r.ok /\ SkipWS(s, r.pos) > Len(s) THEN r ELSE ParseFail

\* json.loads(s): ok with the value, or not ok (JSONDecodeError)
Loads(s) == WholeText(s, ParseValue(s, 1))

-----------------------------------------------------------------------------
(* json.dumps(v, indent=2) *)

RECURSIVE Spaces(_)
Spaces(n) == IF n = 0 THEN "" ELSE " " \o Spaces(n - 1)

RECURSIVE Dumps(_, _)
Dumps(v, ind) ==
    IF IsStr(v) THEN "\"" \o v[2] \o "\""
    ELSE IF IsInt(v) THEN IntStr(v[2])
    ELSE IF IsBool(v) THEN (IF v[2] THEN "true" ELSE "false")
    ELSE IF IsNull(v) THEN "null"
    ELSE IF IsList(v) THEN
        IF Len(v[2]) = 0 THEN "[]"
        ELSE "[\n"
             \o Join(",\n", [i \in 1..Len(v[2]) |->
                                Spaces(ind + 2) \o Dumps(v[2][i], ind + 2)])
             \o "\n" \o Spaces(ind) \o "]"
    ELSE
        IF Len(v[2]) = 0 THEN "{}"
        ELSE "{\n"
             \o Join(",\n", [i \in 1..Len(v[2]) |->
                                Spaces(ind + 2) \o "\"" \o v[2][i][1] \o "\": "
                                \o Dumps(v[2][i][2], ind + 2)])
             \o "\n" \o Spaces(ind) \o "}"

-----------------------------------------------------------------------------
(* Files and directories *)

\* a directory: whether it exists, and the text of each file by name
NoDir == [exists |-> FALSE, files |-> <<>>]
Dir(files) == [exists |-> TRUE, files |-> files]
Names(dir) == DOMAIN dir.files
\* the directory with the file name holding text
WriteFile(dir, name, text) ==
    Dir([n \in Names(dir) \cup {name} |-> IF n = name THEN text ELSE dir.files[n]])
\* file_accuracy.csv: its rows, each the sequence of its fields
NoCsv == [exists |-> FALSE, rows |-> <<>>]
\* evaluation_report.json
NoReport == [exists |-> FALSE, text |-> ""]
NoResponse == [kind |-> "none", text |-> ""]

\* the batch does not run: the state of a study of one function
BatchIdle ==
    /\ credential = FALSE
    /\ html_dir = NoDir /\ expected_dir = NoDir /\ output_dir = NoDir
    /\ csv = NoCsv /\ report = NoReport
    /\ queue = <<>> /\ results = <<>> /\ evaluation_results = <<>>
    /\ response = NoResponse
    /\ console = <<>>
    /\ run = 0

-----------------------------------------------------------------------------
(* SCHEMA and validate_json_output *)

\* SCHEMA["properties"]: the string-typed fields of a record
TopStringFields ==
    {"order_id", "created_date", "order_source_name", "order_source_name_merchant",
     "billing_address", "tracking_number", "carrier_reference_raw", "to_address",
     "expected_delivery_from", "expected_delivery_to", "shipment_value",
     "order_total_tax", "total_shipping_cost", "order_total_price"}

\* SCHEMA["properties"]["line_items"]["items"]["properties"]
ItemStringFields ==
    {"product_id", "product_name", "product_description", "quantity",
     "product_cost", "product_discount", "product_price", "subtotal_cost",
     "tax_amount", "misc_cost", "discount_amount", "total_price"}

\* one element of line_items against its schema: an object whose listed
\* properties, where present, are strings
ItemValid(item) ==
    /\ IsDict(item)
    /\ \A k \in KeySet(item) \cap ItemStringFields : IsStr(Lookup(item, k))

\* jsonschema.validate(instance=data, schema=SCHEMA): the schema names no
\* required property and does not close the set of properties
SchemaValid(data) ==
    /\ IsDict(data)
    /\ \A k \in KeySet(data) \cap TopStringFields : IsStr(Lookup(data, k))
    /\ HasKey(data, "line_items") =>
          LET li == Lookup(data, "line_items")
          IN  /\ IsList(li)
              /\ \A i \in 1..Len(li[2]) : ItemValid(li[2][i])

\* the text handed to json.loads: the two fence splits, then the two strips
Sanitize(json_str) ==
    LET s1 == IF StartsWith(json_str, JsonFence)
              THEN SplitPart1(json_str, JsonFence) ELSE json_str
        s2 == IF StartsWith(s1, Fence) THEN SplitPart1(s1, Fence) ELSE s1
    IN  StripChars(Strip(s2), {BQ})

Returned(v) == [ok |-> TRUE, err |-> "", data |-> v]
Raised(e) == [ok |-> FALSE, err |-> e, data |-> JNull]

\* line 193 and the return, on what json.loads gave
ValidateParsed(p) ==
    IF ~p.ok THEN Raised("JSONDecodeError")
    ELSE IF ~SchemaValid(p.v) THEN Raised("ValidationError")
    ELSE Returned(p.v)

\* validate_json_output(json_str): the parsed data, or the exception raised
validate_json_output(json_str) == ValidateParsed(Loads(Sanitize(json_str)))

-----------------------------------------------------------------------------
(* Specification SpecVal: validate_json_output on JSON documents, bare and *)
(* wrapped in a markdown fence.                                            *)

\* string values of the documents; two of them hold a fence opener
DocStrings == {"A1", "", "x" \o Fence \o "y", "see " \o JsonFence}

OneField(s) == JDict(<< <<"order_id", JStr(s)>> >>)
WithItem(s, t) ==
    JDict(<< <<"order_id", JStr(s)>>,
             <<"line_items", JList(<< JDict(<< <<"product_id", JStr(t)>> >>) >>)>> >>)

\* the parsed documents: records, and values the schema rejects
DocValues ==
    {OneField(s) : s \in DocStrings}
    \cup {WithItem(s, t) : s \in DocStrings, t \in DocStrings}
    \cup {JDict(<<>>), JList(<<>>), JStr("A1"), JInt(5),
          JDict(<< <<"order_id", JInt(5)>> >>),
          JDict(<< <<"line_items", JList(<< JStr("A1") >>)>> >>)}

\* every valid JSON document of the study: json.dumps of a value
ValidDocs == {Dumps(v, 0) : v \in DocValues}

InitVal ==
    /\ pc = "val_start"
    /\ \E d \in ValidDocs : args = [doc |-> d, text |-> d, fence |-> "none"]
    /\ ret = <<>>
    /\ BatchIdle

\* the model wraps its answer in a json fence
WrapJsonFence ==
    /\ pc = "val_start"
    /\ args' = [args EXCEPT !.text = JsonFence \o "\n" \o args.doc \o "\n" \o Fence,
                            !.fence = "json"]
    /\ pc' = "val_wrapped"
    /\ UNCHANGED <<ret, pvars>>

\* the model wraps its answer in a bare fence
WrapBareFence ==
    /\ pc = "val_start"
    /\ args' = [args EXCEPT !.text = Fence \o "\n" \o args.doc \o "\n" \o Fence,
                            !.fence = "bare"]
    /\ pc' = "val_wrapped"
    /\ UNCHANGED <<ret, pvars>>

\* validate_json_output(response.text)
Validate ==
    /\ pc \in {"val_start", "val_wrapped"}
    /\ ret' = validate_json_output(args.text)
    /\ pc' = "val_done"
    /\ UNCHANGED <<args, pvars>>

NextVal == WrapJsonFence \/ WrapBareFence \/ Validate

SpecVal == InitVal /\ [][NextVal]_vars

\* C1: validate_json_output of a valid JSON document wrapped in a markdown
\* fence (json-tagged or bare) returns what validate_json_output of the
\* unwrapped document returns.
C1_FenceTransparent ==
    (pc = "val_done" /\ args.fence # "none") => ret = validate_json_output(args.doc)

-----------------------------------------------------------------------------
(* calculate_accuracy *)

\* key in act, for a string key: "yes", "no" or the TypeError of a value that
\* is no container (int, bool, None).  A list holds the key when an element
\* equals it, a string when the key is a substring of it.
PyIn(key, act) ==
    IF IsDict(act) THEN (IF HasKey(act, key) THEN "yes" ELSE "no")
    ELSE IF IsList(act) THEN
        (IF \E i \in 1..Len(act[2]) : PyEq(act[2][i], JStr(key)) THEN "yes" ELSE "no")
    ELSE IF IsStr(act) THEN (IF Contains(act[2], key) THEN "yes" ELSE "no")
    ELSE "TypeError"

\* len(act): a number, or -1 for the TypeError of int, bool and None
PyLen(act) ==
    IF IsDict(act) \/ IsList(act) THEN Len(act[2])
    ELSE IF IsStr(act) THEN Len(act[2])
    ELSE -1

\* the counters total_fields and correct_fields, and the exception that
\* stopped the walk ("" while it runs)
Counters(t, c) == [total |-> t, correct |-> c, err |-> ""]
Stopped(st, e) == [st EXCEPT !.err = e]

RECURSIVE compare_values(_, _, _)
RECURSIVE WalkKeys(_, _, _, _)
RECURSIVE WalkItems(_, _, _, _)
RECURSIVE WalkKeysScalarOnly(_, _, _, _)
RECURSIVE WalkKeysCountsMissing(_, _, _, _)

\* the mutant of WalkKeys that counts a key only when its value is a scalar
WalkKeysScalarOnly(exp, act, i, st) ==
    IF i > Len(exp[2]) \/ st.err # "" THEN st
    ELSE
        LET key == exp[2][i][1]
            ev == exp[2][i][2]
            container == IsDict(ev) \/ IsList(ev)
            st1 == IF container THEN st ELSE [st EXCEPT !.total = @ + 1]
            in == PyIn(key, act)
        IN  IF in = "TypeError" THEN Stopped(st1, "TypeError")
            ELSE IF in = "no" THEN WalkKeysScalarOnly(exp, act, i + 1, st1)
            ELSE IF ~IsDict(act) THEN Stopped(st1, "TypeError")
            ELSE
                LET av == Lookup(act, key)
                    st2 == IF ~container /\ PyEq(ev, av)
                           THEN [st1 EXCEPT !.correct = @ + 1] ELSE st1
                    st3 == IF container THEN compare_values(ev, av, st2) ELSE st2
                IN  WalkKeysScalarOnly(exp, act, i + 1, st3)

\* the mutant of WalkKeys that takes a key actual lacks for a correct field
WalkKeysCountsMissing(exp, act, i, st) ==
    IF i > Len(exp[2]) \/ st.err # "" THEN st
    ELSE
        LET key == exp[2][i][1]
            ev == exp[2][i][2]
            st1 == [st EXCEPT !.total = @ + 1]
            in == PyIn(key, act)
        IN  IF in = "TypeError" THEN Stopped(st1, "TypeError")
            ELSE IF in = "no"
                 THEN WalkKeysCountsMissing(exp, act, i + 1, [st1 EXCEPT !.correct = @ + 1])
            ELSE IF ~IsDict(act) THEN Stopped(st1, "TypeError")
            ELSE
                LET av == Lookup(act, key)
                    st2 == IF PyEq(ev, av) THEN [st1 EXCEPT !.correct = @ + 1] ELSE st1
                    st3 == IF IsDict(ev) \/ IsList(ev)
                           THEN compare_values(ev, av, st2) ELSE st2
                IN  WalkKeysCountsMissing(exp, act, i + 1, st3)

\* for key in exp (lines 246-251), from the i-th key on
WalkKeys(exp, act, i, st) ==
    IF i > Len(exp[2]) \/ st.err # "" THEN st
    ELSE
        LET key == exp[2][i][1]
            ev == exp[2][i][2]
            st1 == [st EXCEPT !.total = @ + 1]
            in == PyIn(key, act)
        IN  IF in = "TypeError" THEN Stopped(st1, "TypeError")
            ELSE IF in = "no" THEN WalkKeys(exp, act, i + 1, st1)
            \* act[key] on a list or a string
            ELSE IF ~IsDict(act) THEN Stopped(st1, "TypeError")
            ELSE
                LET av == Lookup(act, key)
                    st2 == IF PyEq(ev, av) THEN [st1 EXCEPT !.correct = @ + 1] ELSE st1
                    st3 == IF IsDict(ev) \/ IsList(ev)
                           THEN compare_values(ev, av, st2) ELSE st2
                IN  WalkKeys(exp, act, i + 1, st3)

\* for i, item in enumerate(exp) (lines 253-255), from the i-th item on
WalkItems(exp, act, i, st) ==
    IF i > Len(exp[2]) \/ st.err # "" THEN st
    ELSE IF PyLen(act) < 0 THEN Stopped(st, "TypeError")
    ELSE IF i > PyLen(act) THEN WalkItems(exp, act, i + 1, st)
    \* act[i] on a dict: its keys are strings
    ELSE IF IsDict(act) THEN Stopped(st, "KeyError")
    ELSE
        LET ai == IF IsList(act) THEN act[2][i] ELSE JStr(Ch(act[2], i))
        IN  WalkItems(exp, act, i + 1, compare_values(exp[2][i], ai, st))

compare_values(exp, act, st) ==
    IF st.err # "" THEN st
    ELSE IF IsDict(exp) THEN WalkKeys(exp, act, 1, st)
    ELSE IF IsList(exp) THEN WalkItems(exp, act, 1, st)
    ELSE st

\* calculate_accuracy(expected, actual): the exception raised, or the
\* counters and the value correct_fields / total_fields * 100 as the
\* fraction num / den (0 / 1 when total_fields is 0)
calculate_accuracy(expected, actual) ==
    LET st == compare_values(expected, actual, Counters(0, 0))
    IN  IF st.err # "" THEN [raised |-> st.err, total |-> 0, correct |-> 0,
                             num |-> 0, den |-> 1]
        ELSE [raised |-> "", total |-> st.total, correct |-> st.correct,
              num |-> IF st.total > 0 THEN st.correct * 100 ELSE 0,
              den |-> IF st.total > 0 THEN st.total ELSE 1]

-----------------------------------------------------------------------------
(* Positions in a JSON value: a path is a sequence of steps, <<"k", key>>  *)
(* into a dict and <<"i", index>> into a list.                             *)

RECURSIVE Paths(_)
Paths(v) ==
    {<<>>} \cup
    (IF IsDict(v) THEN
        UNION {{<< <<"k", v[2][i][1]>> >> \o q : q \in Paths(v[2][i][2])} : i \in 1..Len(v[2])}
     ELSE IF IsList(v) THEN
        UNION {{<< <<"i", i>> >> \o q : q \in Paths(v[2][i])} : i \in 1..Len(v[2])}
     ELSE {})

RECURSIVE Get(_, _)
Get(v, p) ==
    IF p = <<>> THEN v
    ELSE IF p[1][1] = "k" THEN Get(Lookup(v, p[1][2]), Tail(p))
    ELSE Get(v[2][p[1][2]], Tail(p))

RECURSIVE Put(_, _, _)
Put(v, p, w) ==
    IF p = <<>> THEN w
    ELSE IF p[1][1] = "k" THEN DictSet(v, p[1][2], Put(Lookup(v, p[1][2]), Tail(p), w))
    ELSE JList([v[2] EXCEPT ![p[1][2]] = Put(@, Tail(p), w)])

\* q without its i-th element
DropAt(q, i) == [j \in 1..(Len(q) - 1) |-> IF j < i THEN q[j] ELSE q[j + 1]]

\* v without the key or the list element at the non-empty path p
RECURSIVE Remove(_, _)
Remove(v, p) ==
    IF Len(p) = 1 THEN
        IF p[1][1] = "k"
        THEN JDict(SelectSeq(v[2], LAMBDA kv : kv[1] # p[1][2]))
        ELSE JList(DropAt(v[2], p[1][2]))
    ELSE IF p[1][1] = "k" THEN DictSet(v, p[1][2], Remove(Lookup(v, p[1][2]), Tail(p)))
    ELSE JList([v[2] EXCEPT ![p[1][2]] = Remove(@, Tail(p))])

-----------------------------------------------------------------------------
(* Specification SpecAcc: calculate_accuracy on an expected record and an  *)
(* actual value that starts as its copy and is edited: a value replaced, a *)
(* key or an element removed, an element appended.                         *)

\* how many edits one behaviour makes
MaxEdits == 2

Rec(q) == JDict(q)

ExpectedRecords ==
    {Rec(<< <<"order_id", JStr("A1")>>, <<"order_total_price", JStr("$10")>> >>),
     Rec(<< <<"order_id", JStr("A1")>>, <<"created_date", JStr("01/02/2024")>>,
            <<"line_items", JList(<<>>)>> >>),
     Rec(<< <<"order_id", JStr("A1")>>,
            <<"line_items", JList(<< Rec(<< <<"product_id", JStr("P1")>>,
                                            <<"quantity", JStr("1")>> >>) >>)>> >>),
     Rec(<< <<"line_items", JList(<< Rec(<< <<"product_id", JStr("P1")>> >>),
                                     Rec(<< <<"product_id", JStr("P2")>> >>) >>)>> >>),
     Rec(<< <<"to_address", Rec(<< <<"city", JStr("X")>> >>)>>,
            <<"order_id", JStr("A1")>> >>),
     Rec(<<>>)}

\* what an edit writes: other scalars, a text that holds a key, empty
\* containers, a record with a key of its own
Replacements ==
    {JStr("$12"), JStr("product_id"), JInt(1), JNull, JList(<<>>),
     Rec(<< <<"sku", JStr("P1")>> >>)}

InitAcc ==
    /\ pc = "acc_edit"
    /\ \E e \in ExpectedRecords : args = [expected |-> e, actual |-> e, edits |-> 0]
    /\ ret = <<>>
    /\ BatchIdle

Edited(a) ==
    /\ pc = "acc_edit"
    /\ args.edits < MaxEdits
    /\ args' = [args EXCEPT !.actual = a, !.edits = @ + 1]
    /\ UNCHANGED <<pc, ret, pvars>>

\* actual holds another value at one position
SetValue == \E p \in Paths(args.actual), w \in Replacements : Edited(Put(args.actual, p, w))

\* actual lacks a key or a list element
RemoveAt == \E p \in Paths(args.actual) \ {<<>>} : Edited(Remove(args.actual, p))

\* a list of actual holds one more element
AppendItem ==
    \E p \in Paths(args.actual), w \in Replacements :
        /\ IsList(Get(args.actual, p))
        /\ Edited(Put(args.actual, p, JList(Append(Get(args.actual, p)[2], w))))

\* the edited value becomes the expected one too: a value against itself
Mirror ==
    /\ pc = "acc_edit"
    /\ args.expected # args.actual
    /\ args' = [args EXCEPT !.expected = args.actual]
    /\ UNCHANGED <<pc, ret, pvars>>

\* calculate_accuracy(expected, actual)
Calculate ==
    /\ pc = "acc_edit"
    /\ ret' = calculate_accuracy(args.expected, args.actual)
    /\ pc' = "acc_done"
    /\ UNCHANGED <<args, pvars>>

NextAcc == SetValue \/ RemoveAt \/ AppendItem \/ Mirror \/ Calculate

SpecAcc == InitAcc /\ [][NextAcc]_vars

-----------------------------------------------------------------------------
(* The walk of calculate_accuracy, stated on positions.                    *)

\* what actual holds at position p of expected, read as Python subscripts
\* read it: a key of a dict, an index of a list or of a text
RECURSIVE ActAt(_, _)
ActAt(a, p) ==
    IF p = <<>> THEN a
    ELSE IF p[1][1] = "k" THEN ActAt(Lookup(a, p[1][2]), Tail(p))
    ELSE IF IsList(a) THEN ActAt(a[2][p[1][2]], Tail(p))
    ELSE ActAt(JStr(Ch(a[2], p[1][2])), Tail(p))

\* the walk compares position p of expected with actual: the value of a key
\* is entered when it is a mapping or a list and actual holds the key, the
\* elements of a list by position up to the shorter length
RECURSIVE Visits(_, _, _)
Visits(e, a, p) ==
    IF p = <<>> THEN TRUE
    ELSE IF p[1][1] = "k" THEN
        /\ IsDict(e) /\ IsDict(a)
        /\ HasKey(e, p[1][2]) /\ HasKey(a, p[1][2])
        /\ IsDict(Lookup(e, p[1][2])) \/ IsList(Lookup(e, p[1][2]))
        /\ Visits(Lookup(e, p[1][2]), Lookup(a, p[1][2]), Tail(p))
    ELSE
        /\ IsList(e) /\ p[1][2] <= Len(e[2])
        /\ IsList(a) \/ IsStr(a)
        /\ p[1][2] <= Len(a[2])
        /\ Visits(e[2][p[1][2]],
                  IF IsList(a) THEN a[2][p[1][2]] ELSE JStr(Ch(a[2], p[1][2])),
                  Tail(p))

\* the keys the walk meets: <<p, k>> for k a key of the mapping at a
\* visited position p of expected
KeysMet(e, a) ==
    UNION {{<<p, k>> : k \in KeySet(Get(e, p))} :
              p \in {q \in Paths(e) : Visits(e, a, q) /\ IsDict(Get(e, q))}}

\* those that actual holds at the same position with an equal value
KeysCorrect(e, a) ==
    {pk \in KeysMet(e, a) :
        LET av == ActAt(a, pk[1])
        IN  /\ IsDict(av)
            /\ HasKey(av, pk[2])
            /\ PyEq(Lookup(Get(e, pk[1]), pk[2]), Lookup(av, pk[2]))}

IsScalar(v) == ~IsDict(v) /\ ~IsList(v)
ScalarKeys(e, S) == {pk \in S : IsScalar(Lookup(Get(e, pk[1]), pk[2]))}

\* the fraction num / den is correct / total * 100, or 0 when total is 0
IsPercentage(num, den, correct, total) ==
    IF total = 0 THEN num = 0 ELSE num * total = correct * 100 * den

Returns == pc = "acc_done" /\ ret.raised = ""

\* C2 as stated: where calculate_accuracy returns, it returns
\* correct / total * 100 (0 when total is 0) with total the number of
\* scalar-valued keys met while walking expected and correct the number of
\* those that actual holds at the same position with an identical value.
C2_ScalarKeysOnly ==
    Returns =>
        LET e == args.expected
            a == args.actual
        IN  IsPercentage(ret.num, ret.den,
                         Cardinality(ScalarKeys(e, KeysCorrect(e, a))),
                         Cardinality(ScalarKeys(e, KeysMet(e, a))))

\* C2 as amended: where calculate_accuracy returns, it returns
\* correct / total * 100 (0 when total is 0) with total the number of keys,
\* scalar-valued or not, of the mappings of expected the walk visits, and
\* correct the number of those keys that actual holds at the same position
\* with an equal value; lists are walked by position over the shorter
\* length only.
C2_AllKeysCounted ==
    Returns =>
        LET e == args.expected
            a == args.actual
        IN  /\ ret.total = Cardinality(KeysMet(e, a))
            /\ ret.correct = Cardinality(KeysCorrect(e, a))
            /\ IsPercentage(ret.num, ret.den, ret.correct, ret.total)

\* a list of expected longer than the list actual holds there, a key with a
\* container value counted, and some but not all keys correct
C2_Witness ==
    /\ Returns
    /\ 0 < ret.correct /\ ret.correct < ret.total
    /\ \E pk \in KeysMet(args.expected, args.actual) :
          LET ev == Lookup(Get(args.expected, pk[1]), pk[2])
              av == ActAt(args.actual, pk[1])
          IN  /\ IsList(ev) /\ IsDict(av) /\ HasKey(av, pk[2])
              /\ IsList(Lookup(av, pk[2]))
              /\ 0 < Len(Lookup(av, pk[2])[2])
              /\ Len(Lookup(av, pk[2])[2]) < Len(ev[2])

\* the example of C2: two scalar keys of which one differs give 50
C2_ExampleFifty ==
    /\ Returns
    /\ Len(args.expected[2]) = 2 /\ ret.total = 2 /\ ret.correct = 1
    /\ ret.num = 50 * ret.den

\* C3: a record with at least one counted field compared with itself gives
\* 100, and an expected and an actual record that share no key give 0.
C3_SelfAndDisjoint ==
    pc = "acc_done" =>
        LET e == args.expected
            a == args.actual
        IN  /\ (IsDict(e) /\ Len(e[2]) > 0 /\ a = e) =>
                  (ret.raised = "" /\ ret.num = 100 * ret.den)
            /\ (IsDict(e) /\ IsDict(a) /\ KeySet(e) \cap KeySet(a) = {}) =>
                  (ret.raised = "" /\ ret.num = 0)

\* a record with a nested list of records, edited and then compared with itself
C3_Witness ==
    /\ pc = "acc_done"
    /\ args.edits > 0
    /\ args.actual = args.expected
    /\ IsDict(args.expected)
    /\ ret.total >= 3
    /\ ret.num = 100 * ret.den

\* an expected record with fields and an actual record with none of its keys
C3_WitnessDisjoint ==
    /\ pc = "acc_done"
    /\ IsDict(args.expected) /\ IsDict(args.actual)
    /\ Len(args.expected[2]) > 1 /\ Len(args.actual[2]) > 0
    /\ KeySet(args.expected) \cap KeySet(args.actual) = {}
    /\ ret.total > 1 /\ ret.num = 0

-----------------------------------------------------------------------------
(* evaluate_with_llm *)

\* what a call of the model gives: an exception, or the text of a response
CallFails == [kind |-> "raise", text |-> ""]
Answers(t) == [kind |-> "text", text |-> t]

\* str(e) of an exception the libraries raise stands in the model as the
\* name of its class; the messages the program words itself are kept.
MissingFieldsMessage == "Missing required fields in LLM response"
InvalidScoreMessage == "Invalid accuracy score format"

required_fields ==
    {"accuracy_score", "field_analysis", "quality_issues", "edge_case_handling",
     "improvement_suggestions"}

\* the standardized error result of lines 362-372
ZeroScore(msg) ==
    JDict(<< <<"accuracy_score", JInt(0)>>,
             <<"field_analysis",
               JDict(<< <<"correct_fields", JList(<<>>)>>,
                        <<"incorrect_fields", JList(<< JStr("Evaluation error: " \o msg) >>)>>,
                        <<"missing_fields", JList(<<>>)>> >>)>>,
             <<"quality_issues", JList(<< JStr("Evaluation failed") >>)>>,
             <<"edge_case_handling", JList(<< JStr("Could not evaluate edge cases") >>)>>,
             <<"improvement_suggestions", JList(<< JStr("Retry evaluation") >>)>> >>)

\* the text handed to json.loads (lines 326-331)
EvalSanitize(response_text) ==
    Strip(IF Contains(response_text, JsonFence)
          THEN SplitPart0(SplitPart1(response_text, JsonFence), Fence)
          ELSE IF Contains(response_text, Fence)
          THEN SplitPart1(response_text, Fence)
          ELSE response_text)

\* isinstance(v, (int, float)): bool is a subclass of int
IsIntOrFloat(v) == IsInt(v) \/ IsBool(v)

\* lines 335-352 on the parsed value: the evaluation, or the exception
CheckEvaluation(evaluation) ==
    LET ins == {PyIn(field, evaluation) : field \in required_fields}
    IN  IF "TypeError" \in ins THEN Raised("TypeError")
        ELSE IF "no" \in ins THEN Raised(MissingFieldsMessage)
        \* evaluation["accuracy_score"] on a list or a text
        ELSE IF ~IsDict(evaluation) THEN Raised("TypeError")
        ELSE IF ~IsIntOrFloat(Lookup(evaluation, "accuracy_score"))
        THEN Raised(InvalidScoreMessage)
        ELSE Returned(evaluation)

\* lines 334-357 on what json.loads gave
CheckParsed(p) == IF p.ok THEN CheckEvaluation(p.v) ELSE Raised("JSONDecodeError")

\* the except clause of line 359: every exception ends there
OrZeroScore(c) == IF c.ok THEN c.data ELSE ZeroScore(c.err)

\* evaluate_with_llm, given what the call of the model gives
evaluate_with_llm(outcome) ==
    IF outcome.kind = "raise" THEN ZeroScore("APIError")
    ELSE OrZeroScore(CheckParsed(Loads(EvalSanitize(outcome.text))))

-----------------------------------------------------------------------------
(* Specification SpecEval: evaluate_with_llm on the outcomes of the call.  *)

Evaluation(score, analysis, issues, edge, suggestions) ==
    JDict(<< <<"accuracy_score", score>>, <<"field_analysis", analysis>>,
             <<"quality_issues", issues>>, <<"edge_case_handling", edge>>,
             <<"improvement_suggestions", suggestions>> >>)

Analysis(incorrect) ==
    JDict(<< <<"correct_fields", JList(<<>>)>>,
             <<"incorrect_fields", JList(incorrect)>>,
             <<"missing_fields", JList(<<>>)>> >>)

Scores == {JInt(95), JInt(0), JInt(100), JBool(TRUE), JBool(FALSE), JStr("95"), JNull,
           JList(<< JInt(95) >>)}

WithScore(score) ==
    Evaluation(score, Analysis(<<>>), JList(<<>>), JList(<<>>), JList(<< JStr("none") >>))

\* v without the key k
Without(v, k) == JDict(SelectSeq(v[2], LAMBDA kv : kv[1] # k))

AllNames == "accuracy_score field_analysis quality_issues edge_case_handling improvement_suggestions"

\* the values a response may hold: evaluations with every kind of score,
\* evaluations that lack a key, and values that are no mapping
EvalValues ==
    {WithScore(sc) : sc \in Scores}
    \cup {Without(WithScore(JInt(95)), k) : k \in required_fields}
    \cup {JDict(<<>>), JList(<<>>), JInt(5), JNull, JStr(AllNames),
          JList(<< JStr("accuracy_score"), JStr("field_analysis"), JStr("quality_issues"),
                   JStr("edge_case_handling"), JStr("improvement_suggestions") >>)}

EvalOutcomes ==
    {CallFails}
    \cup {Answers(Dumps(v, 0)) : v \in EvalValues}
    \cup {Answers(t) : t \in {"", "Sorry", "{\"accuracy_score\": 95"}}

InitEval ==
    /\ pc = "eval_start"
    /\ \E o \in EvalOutcomes : args = [outcome |-> o, fence |-> "none"]
    /\ ret = <<>>
    /\ BatchIdle

\* the model words its answer and puts the JSON in a json fence
EvalJsonFence ==
    /\ pc = "eval_start"
    /\ args.outcome.kind = "text"
    /\ args' = [outcome |-> Answers("Here it is:\n" \o JsonFence \o "\n" \o args.outcome.text
                                    \o "\n" \o Fence \o "\nDone."),
                fence |-> "json"]
    /\ pc' = "eval_wrapped"
    /\ UNCHANGED <<ret, pvars>>

\* the model puts the JSON in a bare fence
EvalBareFence ==
    /\ pc = "eval_start"
    /\ args.outcome.kind = "text"
    /\ args' = [outcome |-> Answers(Fence \o "\n" \o args.outcome.text \o "\n" \o Fence),
                fence |-> "bare"]
    /\ pc' = "eval_wrapped"
    /\ UNCHANGED <<ret, pvars>>

\* evaluate_with_llm(extracted_data, expected_data)
Evaluate ==
    /\ pc \in {"eval_start", "eval_wrapped"}
    /\ ret' = evaluate_with_llm(args.outcome)
    /\ pc' = "eval_done"
    /\ UNCHANGED <<args, pvars>>

NextEval == EvalJsonFence \/ EvalBareFence \/ Evaluate

SpecEval == InitEval /\ [][NextEval]_vars

\* the standardized zero-score result, whatever message it carries
IsZeroScore(v) ==
    /\ IsDict(v)
    /\ KeySet(v) = required_fields
    /\ Lookup(v, "accuracy_score") = JInt(0)
    /\ Lookup(v, "quality_issues") = JList(<< JStr("Evaluation failed") >>)
    /\ Lookup(v, "edge_case_handling") = JList(<< JStr("Could not evaluate edge cases") >>)
    /\ Lookup(v, "improvement_suggestions") = JList(<< JStr("Retry evaluation") >>)
    /\ \E msg \in {"APIError", "JSONDecodeError", "TypeError", MissingFieldsMessage,
                   InvalidScoreMessage} :
          v = ZeroScore(msg)

\* the value the response holds, read as the function reads it
ParsedResponse == Loads(EvalSanitize(args.outcome.text))

\* the outcomes C9 lists: the call failed, the text does not parse, the
\* parsed value lacks one of the five keys, or its accuracy_score is no
\* JSON number
ListedFailure ==
    \/ args.outcome.kind = "raise"
    \/ ~ParsedResponse.ok
    \/ ~IsDict(ParsedResponse.v)
    \/ ~(required_fields \subseteq KeySet(ParsedResponse.v))
    \/ ~IsInt(Lookup(ParsedResponse.v, "accuracy_score"))

\* C9: evaluate_with_llm returns the standardized zero-score result when the
\* call fails, the text does not parse, a required key is missing or the
\* accuracy_score is not a number, and otherwise returns the parsed
\* evaluation, which has the five keys and a numeric accuracy_score.
C9_ZeroScoreOrParsed ==
    pc = "eval_done" =>
        IF ListedFailure THEN IsZeroScore(ret)
        ELSE /\ ret = ParsedResponse.v
             /\ required_fields \subseteq KeySet(ret)
             /\ IsInt(Lookup(ret, "accuracy_score"))

-----------------------------------------------------------------------------
(* The per-file block of compare_results (lines 397-472) *)

\* datetime.now().strftime(...): the clock of a run reads as its number
Now(n) == "T" \o IntStr(n)

\* the score at and above which a row says Pass
PassMark == 90

Header == <<"Timestamp", "Filename", "Accuracy %", "Status", "Issues", "Suggestions">>

\* the rows written when the log is opened (lines 390-393)
HeaderRowsAlways(csv_exists) == <<Header>>
HeaderRows(csv_exists) == IF csv_exists THEN <<>> ELSE <<Header>>

\* v[key] for a text key: the KeyError of a dict without it carries the
\* quoted key, and no other value takes a text as subscript
Subscript(v, key) ==
    IF IsDict(v) THEN (IF HasKey(v, key) THEN Returned(Lookup(v, key))
                       ELSE Raised("'" \o key \o "'"))
    ELSE Raised("TypeError")

\* '; '.join(x) if x else ''
JoinIfAny(x) ==
    IF ~Truthy(x) THEN Returned("")
    ELSE IF IsList(x) THEN
        (IF \A i \in 1..Len(x[2]) : IsStr(x[2][i])
         THEN Returned(Join("; ", [i \in 1..Len(x[2]) |-> x[2][i][2]]))
         ELSE Raised("TypeError"))
    ELSE IF IsStr(x) THEN Returned(Join("; ", CharsOf(x[2])))
    ELSE IF IsDict(x) THEN Returned(Join("; ", Keys(x)))
    ELSE Raised("TypeError")

\* if x: for y in x: print(...)
IterateIfAny(x) ==
    IF ~Truthy(x) \/ IsList(x) \/ IsStr(x) \/ IsDict(x) THEN Returned(JNull)
    ELSE Raised("TypeError")

\* f"{score:.1f}" for a score that is an int >= 0 or a bool
Fmt1(score) == IntStr(NumVal(score)) \o ".0"

Entry(filename, evaluation) ==
    JDict(<< <<"filename", JStr(filename)>>, <<"evaluation", evaluation>> >>)

\* the entry of lines 459-472
Placeholder(msg) ==
    JDict(<< <<"accuracy_score", JInt(0)>>,
             <<"field_analysis",
               JDict(<< <<"correct_fields", JList(<<>>)>>,
                        <<"incorrect_fields", JList(<< JStr("Processing error: " \o msg) >>)>>,
                        <<"missing_fields", JList(<<>>)>> >>)>>,
             <<"quality_issues", JList(<< JStr("File processing failed") >>)>>,
             <<"edge_case_handling", JList(<<>>)>>,
             <<"improvement_suggestions", JList(<< JStr("Check file format and content") >>)>> >>)

ErrorRow(now, filename, msg) == <<now, filename, "0.0", "Error", msg, "Check file and retry">>

\* what the try block leaves when it ends or raises: the exception ("" for
\* none), the rows it has written, the entries it has appended, and whether
\* the model was called
Left(err, rows, entries, called) ==
    [err |-> err, rows |-> rows, entries |-> entries, called |-> called]

\* lines 418-443, given the texts of the two columns
WriteAndPrint(filename, evaluation, now, issues, suggestions) ==
    IF ~IterateIfAny(Lookup(evaluation, "quality_issues")).ok
    THEN Left("TypeError",
              << <<now, filename, Fmt1(Lookup(evaluation, "accuracy_score")),
                   IF NumVal(Lookup(evaluation, "accuracy_score")) >= PassMark
                   THEN "Pass" ELSE "Fail",
                   issues, suggestions>> >>,
              << Entry(filename, evaluation) >>, TRUE)
    ELSE Left("",
              << <<now, filename, Fmt1(Lookup(evaluation, "accuracy_score")),
                   IF NumVal(Lookup(evaluation, "accuracy_score")) >= PassMark
                   THEN "Pass" ELSE "Fail",
                   issues, suggestions>> >>,
              << Entry(filename, evaluation) >>, TRUE)

\* line 415 on, given what line 414 made of the issues
WithIssues(filename, evaluation, now, issues, suggestions) ==
    IF ~issues.ok THEN Left(issues.err, <<>>, << Entry(filename, evaluation) >>, TRUE)
    ELSE IF ~suggestions.ok
    THEN Left(suggestions.err, <<>>, << Entry(filename, evaluation) >>, TRUE)
    ELSE WriteAndPrint(filename, evaluation, now, issues.data, suggestions.data)

\* evaluation['field_analysis']['incorrect_fields'], joined if any
IssuesOf(incorrect) == IF incorrect.ok THEN JoinIfAny(incorrect.data) ELSE incorrect

\* lines 405-443, given the evaluation
Evaluated(filename, evaluation, now) ==
    WithIssues(filename, evaluation, now,
               IssuesOf(Subscript(Lookup(evaluation, "field_analysis"), "incorrect_fields")),
               JoinIfAny(Lookup(evaluation, "improvement_suggestions")))

\* the try block (lines 398-443)
TryBlock(filename, expected_text, actual_text, outcome, now) ==
    IF ~Loads(expected_text).ok \/ ~Loads(actual_text).ok
    THEN Left("JSONDecodeError", <<>>, <<>>, FALSE)
    ELSE Evaluated(filename, evaluate_with_llm(outcome), now)

\* the mutant of ExceptClause that lets the exception go
ExceptClauseReraises(filename, now, t) ==
    [rows |-> t.rows, entries |-> t.entries, called |-> t.called, err |-> t.err,
     next |-> IF t.err = "" THEN "compare" ELSE "aborted"]

\* the loop of line 395 after the try block: the except clause of lines
\* 445-472 when it raised, and on to the next file either way
ExceptClause(filename, now, t) ==
    IF t.err = ""
    THEN [rows |-> t.rows, entries |-> t.entries, called |-> t.called, err |-> "",
          next |-> "compare"]
    ELSE [rows |-> Append(t.rows, ErrorRow(now, filename, t.err)),
          entries |-> Append(t.entries, Entry(filename, Placeholder(t.err))),
          called |-> t.called, err |-> t.err, next |-> "compare"]

\* one turn of the loop of line 395
PerFileBlock(filename, expected_text, actual_text, outcome, now) ==
    ExceptClause(filename, now, TryBlock(filename, expected_text, actual_text, outcome, now))

-----------------------------------------------------------------------------
(* The batch: load_configuration, main, process_email, compare_results *)

\* process_email's result for what the call of the model gives
process_email(outcome) ==
    IF outcome.kind = "raise" THEN Raised("APIError")
    ELSE validate_json_output(outcome.text)

\* os.path.join('output', os.path.basename(file_path).replace('.html', '.json')),
\* as the name inside the directory output
output_filename(filename) == Replace(filename, ".html", ".json")

\* where main goes after the except clause of lines 518-519
AbortBatch == "aborted"
AfterExtractionError == "extract"

\* lines 380-382, for directories that exist
matching_files ==
    {f \in Names(expected_dir) : EndsWith(f, ".json")}
    \cap {f \in Names(output_dir) : EndsWith(f, ".json")}

\* the responses to the extraction prompt
ExtractOutcomes ==
    {CallFails,
     Answers(Dumps(OneField("A1"), 0)),
     Answers(JsonFence \o "\n" \o Dumps(OneField("A2"), 0) \o "\n" \o Fence),
     Answers("{}"),
     Answers("Sorry, no order here."),
     Answers("{\"order_id\": 5}")}

\* the responses to the evaluation prompt
CompareOutcomes ==
    {CallFails,
     Answers("Sorry"),
     Answers(Dumps(WithScore(JInt(95)), 0)),
     Answers(Dumps(Evaluation(JInt(40), Analysis(<< JStr("order_id: wrong"), JStr("to_address") >>),
                              JList(<< JStr("dates") >>), JList(<<>>), JList(<<>>)), 0)),
     Answers(Dumps(Evaluation(JInt(95), JDict(<<>>), JList(<<>>), JList(<<>>), JList(<<>>)), 0)),
     Answers(Dumps(Evaluation(JInt(95), Analysis(<<>>), JInt(5), JList(<<>>), JList(<<>>)), 0))}

HtmlDirs ==
    {NoDir, Dir(<<>>),
     Dir([n \in {"a.html"} |-> "<p>A1</p>"]),
     Dir([n \in {"a.html", "b.html"} |-> "<p>A1</p>"]),
     Dir([n \in {"b.html", "notes.txt"} |-> "<p>A2</p>"]),
     Dir([n \in {"a.html.html", "a.json.html"} |-> "<p>A1</p>"])}

ExpectedDirs ==
    {NoDir,
     Dir([n \in {"a.json"} |-> Dumps(OneField("A1"), 0)]),
     Dir([n \in {"a.json", "b.json"} |->
            IF n = "a.json" THEN Dumps(OneField("A1"), 0) ELSE "{\"order_id\": "])}

\* output is absent, or holds a result of an earlier run
OutputDirs == {NoDir, Dir([n \in {"b.json"} |-> Dumps(OneField("A0"), 0)])}

CsvFiles ==
    {NoCsv,
     [exists |-> TRUE, rows |-> <<Header, <<Now(0), "a.json", "95.0", "Pass", "", "">> >>]}

Init ==
    /\ pc = "start" /\ args = <<>> /\ ret = <<>>
    /\ credential \in BOOLEAN
    /\ html_dir \in HtmlDirs
    /\ expected_dir \in ExpectedDirs
    /\ output_dir \in OutputDirs
    /\ csv \in CsvFiles
    /\ report = NoReport
    /\ queue = <<>> /\ results = <<>> /\ evaluation_results = <<>>
    /\ response = NoResponse
    /\ console = <<>>
    /\ run = 1

\* load_configuration (lines 21-29) and the head of main (lines 503-508)
StartRun ==
    /\ pc = "start"
    /\ pc' = IF credential /\ html_dir.exists THEN "extract" ELSE "aborted"
    /\ queue' = IF credential /\ html_dir.exists THEN Sorted(Names(html_dir)) ELSE <<>>
    /\ results' = <<>>
    /\ console' = IF credential THEN Append(console, <<"Starting email processing...">>)
                  ELSE console
    /\ UNCHANGED <<args, ret, credential, html_dir, expected_dir, output_dir, csv, report,
                   evaluation_results, response, run>>

\* the mutant of Processed that writes the result file before the
\* validation: the text of the response when the validation then fails
ProcessedWritesFirst(filename, outcome, r) ==
    /\ response' = outcome
    /\ output_dir' =
          IF r.ok THEN WriteFile(output_dir, output_filename(filename), Dumps(r.data, 0))
          ELSE IF outcome.kind = "text"
          THEN WriteFile(output_dir, output_filename(filename), outcome.text)
          ELSE output_dir
    /\ results' =
          IF r.ok THEN Append(results, [filename |-> filename, data |-> r.data])
          ELSE results
    /\ console' =
          IF r.ok THEN Append(console, <<"Processing", filename>>)
          ELSE console \o << <<"Processing", filename>>,
                             <<"Error processing", filename, r.err>> >>
    /\ pc' = IF r.ok THEN "extract" ELSE AfterExtractionError

\* process_email and the try of main for one .html file, given the
\* response and the result r of process_email
Processed(filename, outcome, r) ==
    /\ response' = outcome
    /\ output_dir' =
          IF r.ok THEN WriteFile(output_dir, output_filename(filename), Dumps(r.data, 0))
          ELSE output_dir
    /\ results' =
          IF r.ok THEN Append(results, [filename |-> filename, data |-> r.data])
          ELSE results
    /\ console' =
          IF r.ok THEN Append(console, <<"Processing", filename>>)
          ELSE console \o << <<"Processing", filename>>,
                             <<"Error processing", filename, r.err>> >>
    /\ pc' = IF r.ok THEN "extract" ELSE AfterExtractionError

\* one turn of the loop of main (lines 508-519) with process_email inside
ProcessFile ==
    /\ pc = "extract"
    /\ queue # <<>>
    /\ queue' = Tail(queue)
    /\ IF ~EndsWith(Head(queue), ".html")
       THEN UNCHANGED <<pc, output_dir, results, response, console>>
       ELSE \E outcome \in ExtractOutcomes :
              Processed(Head(queue), outcome, process_email(outcome))
    /\ UNCHANGED <<args, ret, credential, html_dir, expected_dir, csv, report,
                   evaluation_results, run>>

\* the end of main (lines 521-525) and the head of compare_results
\* (lines 376-393)
StartCompare ==
    /\ pc = "extract"
    /\ queue = <<>>
    /\ IF expected_dir.exists /\ output_dir.exists
       THEN /\ pc' = "compare"
            /\ queue' = Sorted(matching_files)
            /\ evaluation_results' = <<>>
            /\ csv' = [exists |-> TRUE, rows |-> csv.rows \o HeaderRows(csv.exists)]
            /\ UNCHANGED console
       ELSE /\ pc' = "done"
            /\ console' = Append(console, <<"Error: Required directories not found">>)
            /\ UNCHANGED <<queue, evaluation_results, csv>>
    /\ UNCHANGED <<args, ret, credential, html_dir, expected_dir, output_dir, report,
                   results, response, run>>

\* what one turn b of the loop of line 395 leaves
Compared(filename, outcome, b) ==
    /\ response' = IF b.called THEN outcome ELSE response
    /\ evaluation_results' = evaluation_results \o b.entries
    /\ csv' = [csv EXCEPT !.rows = @ \o b.rows]
    /\ console' =
          IF b.err = "" THEN Append(console, <<"Evaluating", filename>>)
          ELSE console \o << <<"Evaluating", filename>>,
                             <<"Error processing", filename, b.err>> >>
    /\ pc' = b.next

\* one turn of the loop of compare_results (lines 395-472)
CompareFile ==
    /\ pc = "compare"
    /\ queue # <<>>
    /\ queue' = Tail(queue)
    /\ \E outcome \in CompareOutcomes :
          Compared(Head(queue), outcome,
                   PerFileBlock(Head(queue), expected_dir.files[Head(queue)],
                                output_dir.files[Head(queue)], outcome, Now(run)))
    /\ UNCHANGED <<args, ret, credential, html_dir, expected_dir, output_dir, report,
                   results, run>>

\* the report and the statistics (lines 474-499)
WriteReport ==
    /\ pc = "compare"
    /\ queue = <<>>
    /\ report' = [exists |-> TRUE,
                  text |-> Dumps(JDict(<< <<"timestamp", JStr(Now(run))>>,
                                          <<"results", JList(evaluation_results)>> >>), 0)]
    /\ LET valid_results ==
               SelectSeq(evaluation_results,
                         LAMBDA r : NumVal(Lookup(Lookup(r, "evaluation"), "accuracy_score")) > 0)
       IN  console' =
               Append(console,
                      IF Len(valid_results) > 0
                      THEN <<"Overall Results", Len(evaluation_results), Len(valid_results)>>
                      ELSE <<"No valid evaluation results obtained">>)
    /\ pc' = "done"
    /\ UNCHANGED <<args, ret, credential, html_dir, expected_dir, output_dir, csv, queue,
                   results, evaluation_results, response, run>>

Next == StartRun \/ ProcessFile \/ StartCompare \/ CompareFile \/ WriteReport

Spec == Init /\ [][Next]_vars

-----------------------------------------------------------------------------
(* Specification SpecRuns: the program run again and again on the same     *)
(* directories, from an absent log.                                        *)

\* how many runs one behaviour makes
MaxRuns == 2

InitRuns ==
    /\ Init
    /\ credential
    /\ Names(html_dir) = {"a.html"}
    /\ expected_dir.exists
    /\ csv = NoCsv

\* the process ends and the program is started again
NextRun ==
    /\ pc = "done"
    /\ run < MaxRuns
    /\ pc' = "start"
    /\ run' = run + 1
    /\ results' = <<>> /\ evaluation_results' = <<>>
    /\ response' = NoResponse
    /\ console' = <<>>
    /\ UNCHANGED <<args, ret, credential, html_dir, expected_dir, output_dir, csv, report,
                   queue>>

NextRuns == Next \/ NextRun

SpecRuns == InitRuns /\ [][NextRuns]_vars

-----------------------------------------------------------------------------
(* The batch, stated on its files and its console.                         *)

\* the .html files of the input directory
HtmlFiles == {f \in Names(html_dir) : EndsWith(f, ".html")}

\* the file names the console names in its lines of one kind
Printed(kind) == {console[i][2] : i \in {j \in DOMAIN console : console[j][1] = kind}}

BothDirs == expected_dir.exists /\ output_dir.exists

\* the report on disk is the one of this run
ReportThisRun ==
    /\ report.exists
    /\ StartsWith(report.text, "{\n  \"timestamp\": \"" \o Now(run) \o "\"")

\* how far a run has come
PcRank(p) ==
    CASE p = "start" -> 3 [] p = "extract" -> 2 [] p = "compare" -> 1 [] OTHER -> 0

\* a step moves the run to a later position, or takes a file off the queue
\* of the loop it is in: no run goes on for ever
Progress ==
    \/ PcRank(pc') < PcRank(pc)
    \/ pc' = pc /\ Len(queue') < Len(queue)

\* C4 as stated: once the credential is loaded (and the input directory is
\* there to list) the run never aborts, whichever files fail, and it ends
\* with every .html file attempted by the extraction loop, every matching
\* file attempted by the comparison loop, and the report written.
C4_ReportAlwaysReached ==
    /\ []((credential /\ html_dir.exists) => pc # "aborted")
    /\ [](pc = "done" =>
            /\ Printed("Processing") = HtmlFiles
            /\ BothDirs => Printed("Evaluating") = matching_files
            /\ ReportThisRun)
    /\ [][Progress]_vars

\* C4 as amended: once the credential is loaded and the input directory is
\* there to list, the run never aborts, whichever files fail, and it ends
\* with every .html file attempted by the extraction loop; if the expected
\* and the output directory both exist by then, every matching file has
\* been attempted by the comparison loop and the report of the run is
\* written, and if one of them is missing nothing is compared and no report
\* is written.
C4_ReportWhenDirsExist ==
    /\ []((credential /\ html_dir.exists) => pc # "aborted")
    /\ [](pc = "done" =>
            /\ Printed("Processing") = HtmlFiles
            /\ IF BothDirs
               THEN Printed("Evaluating") = matching_files /\ ReportThisRun
               ELSE Printed("Evaluating") = {} /\ ~ReportThisRun)
    /\ [][Progress]_vars

\* a run of two input files that ends with its report although one
\* extraction and, after it, one comparison failed
C4_Witness ==
    /\ pc = "done"
    /\ ReportThisRun
    /\ Cardinality(HtmlFiles) = 2
    /\ \E i, j \in DOMAIN console :
          /\ i < j
          /\ console[i][1] = "Error processing" /\ EndsWith(console[i][2], ".html")
          /\ console[j][1] = "Error processing" /\ EndsWith(console[j][2], ".json")

\* the loop of main is about to take a .html file
ProcessStep == pc = "extract" /\ queue # <<>> /\ EndsWith(Head(queue), ".html")

\* the model answered with a text that is no JSON
NonJsonAnswer(o) == o.kind = "text" /\ ~Loads(Sanitize(o.text)).ok

\* C5 as stated: when the model returns non-JSON text for a file, the batch
\* appends a row for that file with status Error to the accuracy CSV and
\* proceeds to the next file.
C5_ErrorRowLogged ==
    [][(ProcessStep /\ NonJsonAnswer(response')) =>
          /\ pc' = "extract" /\ queue' = Tail(queue)
          /\ Len(csv'.rows) = Len(csv.rows) + 1
          /\ csv'.rows[Len(csv'.rows)][2] = Head(queue)
          /\ csv'.rows[Len(csv'.rows)][4] = "Error"]_vars

\* C5 as amended: when the model returns non-JSON text for a file, the
\* extraction of that file fails with JSONDecodeError, the failure is
\* printed on the console and nothing else records it (the accuracy CSV,
\* the output directory and the list of results stay as they are), and the
\* batch proceeds to the next file.
C5_ConsoleOnly ==
    [][(ProcessStep /\ NonJsonAnswer(response')) =>
          /\ pc' = "extract" /\ queue' = Tail(queue)
          /\ csv' = csv /\ output_dir' = output_dir /\ results' = results
          /\ console' = console \o << <<"Processing", Head(queue)>>,
                                      <<"Error processing", Head(queue), "JSONDecodeError">> >>]_vars

\* a non-JSON answer for one file has just been reported, with a log on
\* disk and another file waiting
C5_Witness ==
    /\ pc = "extract"
    /\ queue # <<>> /\ EndsWith(Head(queue), ".html")
    /\ NonJsonAnswer(response)
    /\ csv.exists
    /\ console # <<>>
    /\ console[Len(console)][1] = "Error processing"
    /\ console[Len(console)][3] = "JSONDecodeError"

\* the file names of the entries of a results list
EntryNames(list) == [i \in 1..Len(list[2]) |-> Lookup(list[2][i], "filename")[2]]

\* those of the report on disk
ReportNames == EntryNames(Lookup(Loads(report.text).v, "results"))

NoDuplicates(q) == \A i, j \in DOMAIN q : i # j => q[i] # q[j]

\* C6: after a run that wrote its report, the results list of the report
\* holds no file name twice, whatever the outcome of extraction and of
\* evaluation for each file (the half of "exactly one entry per input file"
\* that bounds the entries from above).
C6_NoFilenameTwice == (pc = "done" /\ ReportThisRun) => NoDuplicates(ReportNames)

\* C7: each turn of the comparison loop appends exactly one row to the
\* accuracy CSV, the row of the file it takes.
C7_OneRowPerFile ==
    [][(pc = "compare" /\ queue # <<>>) =>
          /\ Len(csv'.rows) = Len(csv.rows) + 1
          /\ csv'.rows[Len(csv'.rows)][2] = Head(queue)]_vars

\* C8: over any number of runs from an absent log, the accuracy CSV has the
\* header as its first row and nowhere else, and every step keeps the rows
\* it finds, unchanged and in order, at the head of the file.
C8_HeaderOnceAppendOnly ==
    /\ [](csv.exists =>
            /\ Len(csv.rows) >= 1
            /\ csv.rows[1] = Header
            /\ \A i \in 2..Len(csv.rows) : csv.rows[i] # Header)
    /\ [][csv.exists =>
            /\ csv'.exists
            /\ Len(csv'.rows) >= Len(csv.rows)
            /\ SubSeq(csv'.rows, 1, Len(csv.rows)) = csv.rows]_vars

\* a second run has appended its rows after those of the first
C8_Witness ==
    /\ run = 2
    /\ pc = "done"
    /\ \E i, j \in DOMAIN csv.rows :
          /\ 1 < i /\ i < j
          /\ csv.rows[i][1] = Now(1) /\ csv.rows[j][1] = Now(2)
          /\ csv.rows[j][4] = "Error"

\* a record with every key of SCHEMA, and every key of the schema of a line
\* item in each of its line items
FullRecord(v) ==
    /\ IsDict(v)
    /\ (TopStringFields \cup {"line_items"}) \subseteq KeySet(v)
    /\ IsList(Lookup(v, "line_items"))
    /\ \A i \in 1..Len(Lookup(v, "line_items")[2]) :
          /\ IsDict(Lookup(v, "line_items")[2][i])
          /\ ItemStringFields \subseteq KeySet(Lookup(v, "line_items")[2][i])

\* C10: every record that extraction has accepted and written in this run
\* has the full set of keys: the result file of each entry of results holds
\* a record with all top-level fields and all fields in each line item.
C10_FullShape ==
    \A i \in DOMAIN results :
        /\ output_filename(results[i].filename) \in Names(output_dir)
        /\ FullRecord(Loads(output_dir.files[output_filename(results[i].filename)]).v)

\* the extraction loop is over and no extraction of the run failed
AllExtracted == pc \in {"compare", "done"} /\ Len(results) = Cardinality(HtmlFiles)

\* the name of f with its extension .html swapped to .json
SwapExtension(f) == Slice(f, 1, Len(f) - Len(".html")) \o ".json"

\* the result files written in the run, in the order of their writing
WrittenNames == [i \in DOMAIN results |-> output_filename(results[i].filename)]

\* C11: in a run where every extraction succeeds, each input .html file has
\* its result file, named by the input's name with the extension .html
\* swapped to .json, and no result file is written twice in the run.
C11_OwnResultFile ==
    AllExtracted =>
        /\ \A i \in DOMAIN results :
              /\ WrittenNames[i] = SwapExtension(results[i].filename)
              /\ WrittenNames[i] \in Names(output_dir)
        /\ NoDuplicates(WrittenNames)

\* C13: calculate_accuracy never raises: for every expected and actual
\* value, also where actual holds a scalar or another kind of container at
\* a position where expected holds a mapping or a list, it returns a number
\* between 0 and 100.
C13_TotalInRange ==
    pc = "acc_done" =>
        /\ ret.raised = ""
        /\ 0 <= ret.num /\ ret.num <= 100 * ret.den

\* the model answered with a text that validate_json_output rejects, at
\* parsing or at schema validation
RejectedAnswer(o) == o.kind = "text" /\ ~validate_json_output(o.text).ok

\* the text of a file is a JSON document that SCHEMA accepts
HoldsValidRecord(text) == Loads(text).ok /\ SchemaValid(Loads(text).v)

\* the files of output that a step has created or changed
WrittenByStep ==
    {n \in Names(output_dir') :
        n \notin Names(output_dir) \/ output_dir'.files[n] # output_dir.files[n]}

\* C14: an extraction that fails at parsing or at schema validation leaves
\* the output directory as it was (no file created or changed, the
\* directory not created), and every file a step writes holds a record
\* that SCHEMA accepts.
C14_WriteOnlyValid ==
    /\ [][(ProcessStep /\ RejectedAnswer(response')) => output_dir' = output_dir]_vars
    /\ [][\A n \in WrittenByStep : HoldsValidRecord(output_dir'.files[n])]_vars

\* after a first file was written, the answer for the second has just
\* failed schema validation, and output holds the first file alone
C14_Witness ==
    /\ pc = "extract"
    /\ RejectedAnswer(response)
    /\ Loads(Sanitize(response.text)).ok
    /\ Len(results) = 1
    /\ Names(html_dir) = {"a.html", "b.html"}
    /\ output_dir.exists /\ Names(output_dir) = {"a.json"}
    /\ console[Len(console)] = <<"Error processing", "b.html", "ValidationError">>

====
